---- MODULE Spec2Model ----
(***************************************************************************)
(* Model of src/db/mod.rs: schema detection and migration                  *)
(* (check_and_upgrade, old_check_and_upgrade, upgrade) and the one-time    *)
(* relay URL normalization pass (normalize_urls).                          *)
(***************************************************************************)
EXTENDS Integers, Sequences, FiniteSets, TLC

\* ------------------------------------------------------------- bounds
MaxCalls == 2          \* calls in one behaviour: process start-ups and direct calls of normalize_urls
MaxFaults == 1         \* injected store failures in one behaviour
MaxRelays == 2         \* rows of the relay table in the initial store
PoolSize == 2          \* sessions of the connection pool

\* ------------------------------------------------------------- constants
UPGRADE_SQL_len == 31  \* const UPGRADE_SQL: [&str; 31]
LocalSettingsVersion == 24  \* "24 is when we switched to local_settings"
FirstRunBelow == 2     \* if version < 2 { first_run = true }

\* ------------------------------------------------------------- strings
Digits == <<"0", "1", "2", "3", "4", "5", "6", "7", "8", "9">>

DigitValue(c) == (CHOOSE i \in 1..10 : Digits[i] = c) - 1

IsDigit(c) == \E i \in 1..10 : Digits[i] = c

\* usize -> decimal text, as the integer bound to the TEXT value column is stored
RECURSIVE to_string(_)
to_string(n) == IF n < 10 THEN <<Digits[n + 1]>>
               ELSE Append(to_string(n \div 10), Digits[(n % 10) + 1])

RECURSIVE DigitsValue(_)
DigitsValue(s) == IF s = <<>> THEN 0
                  ELSE 10 * DigitsValue(SubSeq(s, 1, Len(s) - 1)) + DigitValue(s[Len(s)])

ParseFailed == -1

\* str::parse::<usize>: an optional "+", then one or more decimal digits
parse_usize(s) ==
    LET body == IF s # <<>> /\ s[1] = "+" THEN Tail(s) ELSE s
    IN IF body # <<>> /\ \A i \in 1..Len(body) : IsDigit(body[i])
       THEN DigitsValue(body)
       ELSE ParseFailed

\* ------------------------------------------------------------- relay URLs
\* A URL is a sequence of marks: "A" an upper-case host, "a" and "b"
\* lower-case hosts, "/" the trailing slash, "!" text that is no relay URL.
Urls == { <<"a", "/">>, <<"a">>, <<"A">>, <<"b", "/">>, <<"!">> }

LowerCase(c) == IF c = "A" THEN "a" ELSE c

ParseError == <<"Err">>

\* nostr_types::RelayUrl::try_from_str followed by as_str: Err for text that
\* does not parse, else the host lower-cased and the path ending in "/".
try_from_str(u) ==
    IF u = <<>> \/ (\E i \in 1..Len(u) : u[i] = "!") \/ u[1] = "/"
    THEN ParseError
    ELSE LET low == [i \in 1..Len(u) |-> LowerCase(u[i])]
         IN IF low[Len(low)] = "/" THEN low ELSE Append(low, "/")

Canonical(u) == try_from_str(u) = u

\* ------------------------------------------------------------- state
VARIABLES
    tables,          \* names of the settings tables that exist in the store
    settings,        \* values of the rows of settings with key='version'
    local_settings,  \* rows of local_settings
    relay,           \* relay.url of every relay row
    person_relay,    \* rows <<rowid, relay>> of person_relay
    event_relay,     \* rows <<rowid, relay>> of event_relay
    foreign_keys,    \* the pool: how many idle sessions have PRAGMA foreign_keys on, and off
    db,              \* PRAGMA foreign_keys of the session check_and_upgrade holds
    ndb,             \* PRAGMA foreign_keys of the session normalize_urls holds
    first_run,       \* GLOBALS.first_run
    pc,              \* position of the program
    call,            \* the public function being executed
    version,         \* upgrade's version
    all_rows,        \* normalize_urls' all_rows
    urlkey,          \* index in all_rows of the value being processed
    result,          \* what the last call returned
    schema_read,     \* history: what the read of local_settings.schema_version answered
    legacy_read,     \* history: what the read of the settings version row answered
    detected,        \* history: the version upgrade was entered with (-1: not entered)
    upgrade_ret,     \* history: how upgrade ended in this call
    attempted,       \* history: scripts whose batch this call issued, in order
    executed,        \* history: scripts whose batch succeeded in this call, in order
    writes,          \* history: version writes of this call, in order
    passed,          \* history: how normalize_urls first returned Ok ("no": never)
    upgraded,        \* history: upgrade had returned Ok before this call started
    before,          \* history: the relay tables as the snapshot of this call's pass found them
    linked,          \* history: the dependent rows that named a relay row at the first
                     \* snapshot, and whether a later pass has taken a snapshot again
    calls,           \* calls so far
    faults           \* injected store failures so far

store == <<tables, settings, local_settings, relay, person_relay, event_relay>>
sessions == <<foreign_keys, db, ndb>>
history == <<schema_read, legacy_read, detected, upgrade_ret, attempted, executed,
             writes, passed, upgraded>>
pass_history == <<before, linked>>
counters == <<calls, faults>>
vars == <<store, sessions, first_run, pc, call, version, all_rows, urlkey, result,
          history, pass_history, counters>>

\* A session is known by its setting: "ON", "OFF"; "none" is no session held.
Settings == {"ON", "OFF"}
NoPool == [x \in Settings |-> 0]
\* the sessions pool.get() can hand out
Idle == { x \in Settings : foreign_keys[x] > 0 }
\* the pool with a session of setting x taken out, and put back
Taken(pool, x) == [pool EXCEPT ![x] = @ - 1]
PutBack(pool, x) == IF x = "none" THEN pool ELSE [pool EXCEPT ![x] = @ + 1]

NoRead == [answer |-> "none", value |-> <<>>]
NoTables == [seen |-> FALSE, r |-> {}, p |-> {}, e |-> {}]
NoLinks == [seen |-> FALSE, again |-> FALSE, p |-> {}, e |-> {}]
NoResult == [of |-> "none", status |-> "none", cause |-> "none"]
Return(status, cause) == [of |-> call, status |-> status, cause |-> cause]

\* A call returns, or the process panics: the sessions held go back to the
\* pool (a panic ends the process and its pool), and the locals are dead.
Finish(status, cause) ==
    /\ result' = Return(status, cause)
    /\ pc' = IF status = "panic" THEN "down" ELSE "idle"
    /\ call' = "none"
    /\ foreign_keys' = IF status = "panic" THEN NoPool
                       ELSE PutBack(PutBack(foreign_keys, db), ndb)
    /\ db' = "none"
    /\ ndb' = "none"
    /\ version' = 0
    /\ all_rows' = <<>>
    /\ urlkey' = 0

\* Failures the store engine can answer any statement with:
\* "SqliteFailure" is rusqlite::Error::SqliteFailure(_, Some(message)) whose
\* message holds none of the texts the program looks for, "other" is every
\* error of another shape.
Injected == {"SqliteFailure", "other"}
Failures == IF faults < MaxFaults THEN Injected ELSE {}
Count(o) == faults' = IF o \in Injected THEN faults + 1 ELSE faults

\* ------------------------------------------------------------- initial stores
Row(v, n) == [schema_version |-> v, urls_are_normalized |-> n]

LegacyValues == { to_string(n) : n \in 0..(LocalSettingsVersion - 1) }
                  \cup { <<"x">>, <<>>, <<"-", "1">>, <<"+", "5">> }

NewVersions == LocalSettingsVersion..(UPGRADE_SQL_len + 1)

Limited(S, n) == { T \in SUBSET S : Cardinality(T) <= n }

\* At most one person_relay and one event_relay row, each naming a relay row
\* or a value that no relay row holds.
Dependents == { {} } \cup { {<<1, u>>} : u \in Urls }

Integrity(rel, deps) == \A d \in deps : d[2] \in rel

Store(t, s, l, r, p, e) == [t |-> t, s |-> s, l |-> l, r |-> r, p |-> p, e |-> e]

Both == {"settings", "local_settings"}
Kept == {to_string(LocalSettingsVersion - 1)}

\* Every kind of version marker, each with one content of the relay tables.
Stores ==
    \* a fresh store, and a settings table without a version row
    { Store(t, {}, {}, {}, {}, {}) : t \in { {}, {"settings"} } }
    \cup
    \* a store of the Legacy scheme
    { Store({"settings"}, {v}, {}, {<<"A">>, <<"a", "/">>, <<"!">>},
            {<<1, <<"A">>>>}, {<<1, <<"!">>>>}) : v \in LegacyValues }
    \cup
    \* a store of the New scheme (one written by a newer binary included)
    \* whose relay URLs are not normalized, and one where they are
    { Store(Both, Kept, {Row(v, FALSE)}, {<<"A">>, <<"a", "/">>, <<"!">>},
            {<<1, <<"A">>>>}, {<<1, <<"!">>>>}) : v \in NewVersions }
    \cup
    { Store(Both, Kept, {Row(v, TRUE)}, {<<"a", "/">>},
            {<<1, <<"a", "/">>>>}, {}) : v \in NewVersions }

\* Every content of the relay tables, in a current store and in a fresh one.
UrlStores ==
    { Store({}, {}, {}, {}, {}, {}) }
    \cup
    { x \in [t : {Both}, s : {Kept},
             l : { {Row(UPGRADE_SQL_len, n)} : n \in BOOLEAN },
             r : Limited(Urls, MaxRelays), p : Dependents, e : Dependents] :
        \* a store whose pass is done holds canonical keys and no dangling row
        (\E w \in x.l : w.urls_are_normalized)
            => /\ \A u \in x.r : Canonical(u)
               /\ Integrity(x.r, x.p \cup x.e) }

Start(S) ==
    /\ \E x \in S :
        /\ tables = x.t
        /\ settings = x.s
        /\ local_settings = x.l
        /\ relay = x.r
        /\ person_relay = x.p
        /\ event_relay = x.e
    /\ foreign_keys = NoPool
    /\ db = "none"
    /\ ndb = "none"
    /\ first_run = FALSE
    /\ pc = "down"
    /\ call = "none"
    /\ version = 0
    /\ all_rows = <<>>
    /\ urlkey = 0
    /\ result = NoResult
    /\ schema_read = "none"
    /\ legacy_read = NoRead
    /\ detected = -1
    /\ upgrade_ret = "none"
    /\ attempted = <<>>
    /\ executed = <<>>
    /\ writes = <<>>
    /\ passed = "no"
    /\ upgraded = FALSE
    /\ before = NoTables
    /\ linked = NoLinks
    /\ calls = 0
    /\ faults = 0

Init == Start(Stores)

UrlInit == Start(UrlStores)

\* ------------------------------------------------------------- migration scripts
\* sql/schema<k>.sql, as far as the version markers go: the first script
\* creates the settings table with its version row, the script of the switch
\* to local_settings creates that table with its single row.
script_tables(k) ==
    IF k = 1 THEN tables \cup {"settings"}
    ELSE IF k = LocalSettingsVersion THEN tables \cup {"local_settings"}
    ELSE tables

script_settings(k) ==
    IF k = 1 /\ settings = {} THEN {to_string(0)} ELSE settings

script_local_settings(k) ==
    IF k = LocalSettingsVersion /\ local_settings = {}
    THEN {Row(k - 1, FALSE)}
    ELSE local_settings

\* ------------------------------------------------------------- init_database
\* A process starts: a new pool, whose sessions have the foreign_keys setting
\* the SQLite build defaults to, and one of them has it turned on.
init_database ==
    /\ before' = NoTables
    /\ UNCHANGED linked
    /\ pc \in {"down", "idle"}
    /\ calls < MaxCalls
    /\ calls' = calls + 1
    /\ \E d \in Settings :
        foreign_keys' = PutBack([NoPool EXCEPT ![d] = PoolSize - 1], "ON")
    /\ first_run' = FALSE
    /\ pc' = "started"
    /\ result' = NoResult
    /\ UNCHANGED <<store, db, ndb, call, version, all_rows, urlkey, history, faults>>

\* ------------------------------------------------------------- check_and_upgrade
\* What "SELECT schema_version FROM local_settings LIMIT 1" answers.
read_schema_version ==
    IF "local_settings" \notin tables THEN "no such table"
    ELSE IF local_settings = {} THEN "QueryReturnedNoRows"
    ELSE "Ok"

\* mutant: the version is always looked for in the settings table
version_arm_legacy(o) ==
    IF o \in {"Ok", "no such table"} THEN "old_check_and_upgrade"
    ELSE IF o = "SqliteFailure" THEN "normalize_urls"
    ELSE "return"

\* The arm of the match on the query's result that is taken.
version_arm(o) ==
    IF o = "Ok" THEN "upgrade"
    ELSE IF o = "no such table" THEN "old_check_and_upgrade"
    ELSE IF o = "SqliteFailure" THEN "normalize_urls"
    ELSE "return"

check_and_upgrade ==
    /\ UNCHANGED pass_history
    /\ pc = "started"
    /\ upgraded' = (upgraded \/ upgrade_ret = "Ok")
    /\ upgrade_ret' = "none"
    /\ attempted' = <<>>
    /\ executed' = <<>>
    /\ writes' = <<>>
    /\ legacy_read' = NoRead
    /\ \E x \in Idle, o \in {read_schema_version} \cup Failures :
        /\ Count(o)
        /\ schema_read' = o
        /\ LET arm == version_arm(o) IN
           IF arm = "return"
           THEN /\ result' = [of |-> "check_and_upgrade", status |-> "Err",
                              cause |-> "schema_version"]
                /\ pc' = "idle"
                /\ detected' = -1
                /\ UNCHANGED <<db, foreign_keys, version, call>>
           ELSE /\ pc' = arm
                /\ call' = "check_and_upgrade"
                /\ db' = x
                /\ foreign_keys' = Taken(foreign_keys, x)
                /\ version' = IF arm = "upgrade"
                              THEN (CHOOSE w \in local_settings : TRUE).schema_version
                              ELSE 0
                /\ detected' = IF arm = "upgrade" THEN version' ELSE -1
                /\ result' = NoResult
    /\ UNCHANGED <<store, ndb, all_rows, urlkey, first_run, passed, calls>>

\* ------------------------------------------------------------- old_check_and_upgrade
\* What "SELECT value FROM settings WHERE key='version'" answers.
read_settings_version ==
    IF "settings" \notin tables THEN "no such table"
    ELSE IF settings = {} THEN "QueryReturnedNoRows"
    ELSE "Ok"

\* mutant: only version 0 counts as a first run
first_run_version_zero(v) == v < FirstRunBelow - 1

\* first_run is stored for a version the settings table holds
first_run_version(v) == v < FirstRunBelow

old_check_and_upgrade ==
    /\ UNCHANGED pass_history
    /\ pc = "old_check_and_upgrade"
    /\ \E o \in {read_settings_version} \cup Failures :
        /\ Count(o)
        /\ legacy_read' = [answer |-> o,
                           value |-> IF o = "Ok" THEN CHOOSE x \in settings : TRUE ELSE <<>>]
        /\ IF o = "Ok"
           THEN LET v == parse_usize(CHOOSE x \in settings : TRUE) IN
                IF v = ParseFailed
                THEN \* unwrap() of the parse error
                     /\ Finish("panic", "parse")
                     /\ UNCHANGED <<first_run, detected>>
                ELSE /\ first_run' = (first_run \/ first_run_version(v))
                     /\ version' = v
                     /\ detected' = v
                     /\ pc' = "upgrade"
                     /\ UNCHANGED <<sessions, call, all_rows, urlkey, result>>
           ELSE /\ first_run' = TRUE
                /\ version' = 0
                /\ detected' = 0
                /\ pc' = "upgrade"
                /\ UNCHANGED <<sessions, call, all_rows, urlkey, result>>
    /\ UNCHANGED <<store, schema_read, upgrade_ret, attempted, executed, writes, passed,
                   upgraded, calls>>

\* ------------------------------------------------------------- upgrade
\* mutant: the check on entry lets one version too many through
too_new_late(v) == v > UPGRADE_SQL_len + 1

too_new(v) == v > UPGRADE_SQL_len

\* the check on entry
upgrade ==
    /\ UNCHANGED pass_history
    /\ pc = "upgrade"
    /\ IF too_new(version)
       THEN /\ Finish("panic", "newer")
            /\ upgrade_ret' = "panic"
       ELSE /\ pc' = "execute_batch"
            /\ UNCHANGED <<sessions, call, version, all_rows, urlkey, result,
                           upgrade_ret>>
    /\ UNCHANGED <<store, first_run, schema_read, legacy_read, detected, attempted,
                   executed, writes, passed, upgraded, counters>>

more_scripts(v) == v < UPGRADE_SQL_len

\* mutant: the loop takes the script after the next one
next_script_skip(v) == v + 2

\* the script the loop executes at version v
next_script(v) == v + 1

\* mutant: the batch's result is dropped
batch_arm_ignore(o) == "write_version"

\* what the ? on the batch's result does
batch_arm(o) == IF o = "Ok" THEN "write_version" ELSE "return"

\* one turn of the loop, up to version += 1
execute_batch ==
    /\ UNCHANGED pass_history
    /\ pc = "execute_batch"
    /\ more_scripts(version)
    /\ \E o \in {"Ok"} \cup Failures :
        /\ Count(o)
        /\ LET k == next_script(version) IN
           /\ attempted' = Append(attempted, k)
           /\ IF o = "Ok"
              THEN /\ tables' = script_tables(k)
                   /\ settings' = script_settings(k)
                   /\ local_settings' = script_local_settings(k)
                   /\ executed' = Append(executed, k)
              ELSE UNCHANGED <<tables, settings, local_settings, executed>>
           /\ IF batch_arm(o) = "return"
              THEN /\ Finish("Err", "execute_batch")
                   /\ upgrade_ret' = "Err"
              ELSE /\ version' = version + 1
                   /\ pc' = "write_version"
                   /\ UNCHANGED <<sessions, call, all_rows, urlkey, result, upgrade_ret>>
    /\ UNCHANGED <<relay, person_relay, event_relay, first_run, schema_read,
                   legacy_read, detected, writes, passed, upgraded, calls>>

\* mutant: the boundary is one version late
version_table_late(v) == IF v <= LocalSettingsVersion THEN "settings" ELSE "local_settings"

\* the table the version is written to
version_table(v) == IF v < LocalSettingsVersion THEN "settings" ELSE "local_settings"

\* the rest of the turn: the UPDATE of the version marker
write_version ==
    /\ UNCHANGED pass_history
    /\ pc = "write_version"
    /\ LET t == version_table(version) IN
       \E o \in {IF t \in tables THEN "Ok" ELSE "no such table"} \cup Failures :
        /\ Count(o)
        /\ IF o = "Ok"
           THEN /\ settings' = IF t = "settings"
                               THEN { to_string(version) : x \in settings }
                               ELSE settings
                /\ local_settings' =
                       IF t = "local_settings"
                       THEN { [w EXCEPT !.schema_version = version] : w \in local_settings }
                       ELSE local_settings
                /\ writes' = Append(writes, [table |-> t, version |-> version])
                /\ pc' = "execute_batch"
                /\ UNCHANGED <<sessions, call, version, all_rows, urlkey, result,
                               upgrade_ret>>
           ELSE /\ Finish("Err", "write_version")
                /\ upgrade_ret' = "Err"
                /\ UNCHANGED <<settings, local_settings, writes>>
    /\ UNCHANGED <<tables, relay, person_relay, event_relay, first_run, schema_read,
                   legacy_read, detected, attempted, executed, passed, upgraded, calls>>

\* the loop ends: Ok(()), db is dropped, and the caller goes on to normalize_urls
upgrade_return ==
    /\ UNCHANGED pass_history
    /\ pc = "execute_batch"
    /\ ~more_scripts(version)
    /\ upgrade_ret' = "Ok"
    /\ foreign_keys' = PutBack(foreign_keys, db)
    /\ db' = "none"
    /\ pc' = "normalize_urls"
    /\ UNCHANGED <<store, ndb, first_run, call, version, all_rows, urlkey, result,
                   schema_read, legacy_read, detected, attempted, executed, writes,
                   passed, upgraded, counters>>

\* ------------------------------------------------------------- normalize_urls
\* a direct call, in a process whose start-up has returned
call_normalize_urls ==
    /\ before' = NoTables
    /\ UNCHANGED linked
    /\ pc = "idle"
    /\ calls < MaxCalls
    /\ calls' = calls + 1
    /\ call' = "normalize_urls"
    /\ pc' = "normalize_urls"
    /\ result' = NoResult
    /\ UNCHANGED <<store, sessions, first_run, version, all_rows, urlkey, history,
                   faults>>

\* What GLOBALS.db.get() and then
\* "SELECT urls_are_normalized FROM local_settings LIMIT 1" answer.
read_urls_are_normalized ==
    IF Idle = {} THEN "no session"
    ELSE IF "local_settings" \notin tables THEN "no such table"
    ELSE IF local_settings = {} THEN "QueryReturnedNoRows"
    ELSE "Ok"

\* mutant: the flag is not looked at
already_normalized_never(flag) == FALSE

\* the guard
already_normalized(flag) == flag

\* from the entry to the guard
normalize_urls ==
    /\ UNCHANGED pass_history
    /\ pc = "normalize_urls"
    /\ \E o \in {read_urls_are_normalized} \cup Failures :
        /\ Count(o)
        /\ IF o = "Ok"
           THEN IF already_normalized((CHOOSE w \in local_settings : TRUE).urls_are_normalized)
                THEN /\ Finish("Ok", "guard")
                     /\ passed' = IF passed = "no" THEN "guard" ELSE passed
                ELSE /\ \E x \in Idle :
                        /\ ndb' = x
                        /\ foreign_keys' = Taken(foreign_keys, x)
                     /\ pc' = "pragma_update"
                     /\ UNCHANGED <<db, call, version, all_rows, urlkey, result, passed>>
           ELSE /\ Finish("Err", "urls_are_normalized")
                /\ UNCHANGED passed
    /\ UNCHANGED <<store, first_run, schema_read, legacy_read, detected, upgrade_ret,
                   attempted, executed, writes, upgraded, calls>>

\* PRAGMA foreign_keys = OFF
pragma_update ==
    /\ UNCHANGED pass_history
    /\ pc = "pragma_update"
    /\ \E o \in {"Ok"} \cup Failures :
        /\ Count(o)
        /\ IF o = "Ok"
           THEN /\ ndb' = "OFF"
                /\ pc' = "snapshot"
                /\ UNCHANGED <<foreign_keys, db, call, version, all_rows, urlkey, result>>
           ELSE Finish("Err", "pragma_update")
    /\ UNCHANGED <<store, first_run, history, calls>>

\* the orders in which the rows of a table can come
Orders(S) == { q \in [1..Cardinality(S) -> S] : \A u \in S : \E i \in DOMAIN q : q[i] = u }

\* the rows of a dependent table that name a row of relay
Linked(rows) == { d[1] : d \in { x \in rows : x[2] \in relay } }

\* SELECT url FROM relay, collected into all_rows
snapshot ==
    /\ pc = "snapshot"
    /\ \E o \in {"Ok"} \cup Failures :
        /\ Count(o)
        /\ IF o = "Ok"
           THEN /\ \E q \in Orders(relay) : all_rows' = q
                /\ urlkey' = 1
                /\ pc' = "row"
                /\ before' = [seen |-> TRUE, r |-> relay, p |-> person_relay,
                              e |-> event_relay]
                /\ linked' = IF linked.seen THEN [linked EXCEPT !.again = TRUE]
                             ELSE [seen |-> TRUE, again |-> FALSE,
                                   p |-> Linked(person_relay),
                                   e |-> Linked(event_relay)]
                /\ UNCHANGED <<sessions, call, version, result>>
           ELSE /\ Finish("Err", "snapshot")
                /\ UNCHANGED pass_history
    /\ UNCHANGED <<store, first_run, history, calls>>

\* UPDATE <table> SET <url column>=to WHERE <url column>=from
update_relay(rel, from, to) == IF from \in rel THEN (rel \ {from}) \cup {to} ELSE rel
update_rows(rows, from, to) == { IF d[2] = from THEN <<d[1], to>> ELSE d : d \in rows }
\* DELETE FROM <table> WHERE <url column>=from
delete_relay(rel, from) == rel \ {from}
delete_rows(rows, from) == { d \in rows : d[2] # from }

\* What "UPDATE relay SET url=? WHERE url=?" answers: url is the table's key.
execute_update_relay(from, to) ==
    IF from \in relay /\ to \in relay THEN "constraint failed" ELSE "Ok"

\* What is done with the answer of the UPDATE of relay.
update_arm(o) ==
    IF o = "Ok" THEN "update_person_relay"
    ELSE IF o = "constraint failed" THEN "delete_duplicate"
    ELSE IF o = "SqliteFailure" THEN "update_person_relay"
    ELSE "return"

\* mutant: a value that does not parse is left alone
row_arm_keep_invalid(u, urlstr) ==
    IF urlstr = ParseError THEN "keep"
    ELSE IF u # urlstr THEN "update"
    ELSE "keep"

\* mutant: a value equal to its canonical form is treated as one that does not parse
row_arm_delete_equal(u, urlstr) ==
    IF urlstr = ParseError THEN "delete"
    ELSE IF u # urlstr THEN "update"
    ELSE "delete"

\* what the loop body does with a snapshot value and its parse
row_arm(u, urlstr) ==
    IF urlstr = ParseError THEN "delete"
    ELSE IF u # urlstr THEN "update"
    ELSE "keep"

\* mutant: the loop stops before the last value of the snapshot
all_processed_early(k, rows) == k >= Len(rows)

\* for urlkey in all_rows.iter(): the loop is over
all_processed(k, rows) == k > Len(rows)

\* the head of the loop body: the parse and the first statement on relay
row ==
    /\ UNCHANGED pass_history
    /\ pc = "row"
    /\ ~all_processed(urlkey, all_rows)
    /\ LET u == all_rows[urlkey]
           urlstr == try_from_str(u)
           arm == row_arm(u, urlstr)
       IN IF arm = "delete"
          THEN \E o \in {"Ok"} \cup Failures :
                /\ Count(o)
                /\ IF o = "Ok"
                   THEN /\ relay' = delete_relay(relay, u)
                        /\ pc' = "delete_person_relay"
                        /\ UNCHANGED <<sessions, call, version, all_rows, urlkey, result>>
                   ELSE /\ Finish("Err", "delete_relay")
                        /\ UNCHANGED relay
          ELSE IF arm = "keep"
          THEN /\ urlkey' = urlkey + 1
               /\ UNCHANGED <<relay, sessions, call, version, all_rows, result, pc, faults>>
          ELSE \E o \in {execute_update_relay(u, urlstr)} \cup Failures :
                /\ Count(o)
                /\ LET next == update_arm(o) IN
                   IF next = "return"
                   THEN /\ Finish("Err", "update_relay")
                        /\ UNCHANGED relay
                   ELSE /\ relay' = IF o = "Ok" THEN update_relay(relay, u, urlstr) ELSE relay
                        /\ pc' = next
                        /\ UNCHANGED <<sessions, call, version, all_rows, urlkey, result>>
    /\ UNCHANGED <<tables, settings, local_settings, person_relay, event_relay,
                   first_run, history, calls>>

\* DELETE FROM relay WHERE url=?, after the constraint failure
delete_duplicate ==
    /\ UNCHANGED pass_history
    /\ pc = "delete_duplicate"
    /\ \E o \in {"Ok"} \cup Failures :
        /\ Count(o)
        /\ IF o = "Ok"
           THEN /\ relay' = delete_relay(relay, all_rows[urlkey])
                /\ pc' = "update_person_relay"
                /\ UNCHANGED <<sessions, call, version, all_rows, urlkey, result>>
           ELSE /\ Finish("Err", "delete_duplicate")
                /\ UNCHANGED relay
    /\ UNCHANGED <<tables, settings, local_settings, person_relay, event_relay,
                   first_run, history, calls>>

\* a statement on one of the two dependent tables
dependent(cause, person, event, then, step) ==
    /\ UNCHANGED pass_history
    /\ \E o \in {"Ok"} \cup Failures :
        /\ Count(o)
        /\ IF o = "Ok"
           THEN /\ person_relay' = person
                /\ event_relay' = event
                /\ pc' = then
                /\ urlkey' = urlkey + step
                /\ UNCHANGED <<sessions, call, version, all_rows, result>>
           ELSE /\ Finish("Err", cause)
                /\ UNCHANGED <<person_relay, event_relay>>
    /\ UNCHANGED <<tables, settings, local_settings, relay, first_run, history, calls>>

update_person_relay ==
    /\ pc = "update_person_relay"
    /\ LET u == all_rows[urlkey] IN
       dependent("update_person_relay",
                 update_rows(person_relay, u, try_from_str(u)), event_relay,
                 "update_event_relay", 0)

update_event_relay ==
    /\ pc = "update_event_relay"
    /\ LET u == all_rows[urlkey] IN
       dependent("update_event_relay",
                 person_relay, update_rows(event_relay, u, try_from_str(u)),
                 "row", 1)

delete_person_relay ==
    /\ pc = "delete_person_relay"
    /\ dependent("delete_person_relay",
                 delete_rows(person_relay, all_rows[urlkey]), event_relay,
                 "delete_event_relay", 0)

delete_event_relay ==
    /\ pc = "delete_event_relay"
    /\ dependent("delete_event_relay",
                 person_relay, delete_rows(event_relay, all_rows[urlkey]),
                 "row", 1)

\* UPDATE local_settings SET urls_are_normalized=1, and Ok(())
set_urls_are_normalized ==
    /\ UNCHANGED pass_history
    /\ pc = "row"
    /\ all_processed(urlkey, all_rows)
    /\ \E o \in {"Ok"} \cup Failures :
        /\ Count(o)
        /\ IF o = "Ok"
           THEN /\ local_settings' =
                       { [w EXCEPT !.urls_are_normalized = TRUE] : w \in local_settings }
                /\ Finish("Ok", "pass")
                /\ passed' = IF passed = "no" THEN "pass" ELSE passed
           ELSE /\ Finish("Err", "urls_are_normalized")
                /\ UNCHANGED <<local_settings, passed>>
    /\ UNCHANGED <<tables, settings, relay, person_relay, event_relay, first_run,
                   schema_read, legacy_read, detected, upgrade_ret, attempted, executed,
                   writes, upgraded, calls>>

\* ------------------------------------------------------------- crash
\* The process is killed between two statements of a running call: its pool
\* and its locals are gone, the store is as the last statement left it.
crash ==
    /\ call # "none"
    /\ result' = Return("crash", "crash")
    /\ pc' = "down"
    /\ call' = "none"
    /\ foreign_keys' = NoPool
    /\ db' = "none"
    /\ ndb' = "none"
    /\ version' = 0
    /\ all_rows' = <<>>
    /\ urlkey' = 0
    /\ UNCHANGED <<store, first_run, history, pass_history, counters>>

\* ------------------------------------------------------------- specification
\* the steps of a running call
Run ==
    \/ check_and_upgrade
    \/ old_check_and_upgrade
    \/ upgrade
    \/ execute_batch
    \/ write_version
    \/ upgrade_return
    \/ normalize_urls
    \/ pragma_update
    \/ snapshot
    \/ row
    \/ delete_duplicate
    \/ update_person_relay
    \/ update_event_relay
    \/ delete_person_relay
    \/ delete_event_relay
    \/ set_urls_are_normalized

Next ==
    \/ init_database
    \/ call_normalize_urls
    \/ Run

\* every kind of version marker
Spec == Init /\ [][Next]_vars

\* every content of the relay tables
UrlSpec == UrlInit /\ [][Next]_vars

CrashNext ==
    \/ Next
    \/ crash

\* every kind of version marker, in processes that can be killed
CrashSpec == Init /\ [][CrashNext]_vars

\* every content of the relay tables, in processes that can be killed
UrlCrashSpec == UrlInit /\ [][CrashNext]_vars

\* The calls run on one thread, statement after statement: a call that has
\* started takes its next step.
FairSpec == Spec /\ WF_vars(Run)

TypeOK ==
    /\ tables \subseteq Both
    /\ Cardinality(settings) <= 1
    /\ Cardinality(local_settings) <= 1
    /\ relay \subseteq Urls
    /\ db \in Settings \cup {"none"}
    /\ ndb \in Settings \cup {"none"}
    /\ foreign_keys["ON"] + foreign_keys["OFF"] <= PoolSize
    /\ version \in 0..(UPGRADE_SQL_len + 1)
    /\ faults \in 0..MaxFaults

\* ------------------------------------------------------------- claims
\* the version the store's marker says: the New scheme's if its row exists,
\* else the Legacy row's, else 0
PersistedVersion ==
    IF local_settings # {} THEN (CHOOSE w \in local_settings : TRUE).schema_version
    ELSE IF settings # {} THEN parse_usize(CHOOSE x \in settings : TRUE)
    ELSE 0

\* the scripts a+1..b, in ascending order
Scripts(a, b) == [i \in 1..(b - a) |-> a + i]

\* what upgrade has done so far, and what it has done when it returns
UpgradeProgress ==
    /\ pc \in {"execute_batch", "write_version"}
        => /\ detected \in 0..31
           /\ version \in detected..31
           /\ executed = Scripts(detected, version)
           /\ attempted = executed
    /\ upgrade_ret = "Ok"
        => /\ detected \in 0..31
           /\ executed = Scripts(detected, 31)
           /\ attempted = executed
           /\ PersistedVersion = 31
    /\ (upgrade_ret = "Err" /\ result.of = "check_and_upgrade")
        => /\ result.cause \in {"execute_batch", "write_version"}
           /\ faults > 0 \/ version_table(version) \notin tables

\* C1: from every starting version v in 0..31 upgrade terminates, and with a
\* failure only when a script or a write of the version failed; as long as
\* none fails it has executed exactly the scripts v+1..version, each once and
\* in ascending order, and when it returns Ok the scripts executed are exactly
\* v+1..31 and the persisted version is 31.
C1_UpgradeRunsEveryScriptOnce ==
    /\ []UpgradeProgress
    /\ (pc = "upgrade" /\ version <= 31) ~> (upgrade_ret \in {"Ok", "Err"})

C1_Witness ==
    /\ upgrade_ret = "Ok"
    /\ detected = 0
    /\ Len(executed) = 31
    /\ PersistedVersion = 31

\* C2: when the version detected is above 31, the call ends in the panic that
\* reports a store newer than the binary, an outcome no other failure has: no
\* script was issued, no version was written and the marker is as it was found.
C2_NewerStorePanicsUntouched ==
    (detected > 31 /\ pc # "started")
        => /\ attempted = <<>>
           /\ executed = <<>>
           /\ writes = <<>>
           /\ PersistedVersion = detected
           /\ pc \in {"upgrade", "down"}
           /\ pc = "down"
               => /\ result = [of |-> "check_and_upgrade", status |-> "panic",
                               cause |-> "newer"]
                  /\ upgrade_ret = "panic"

C2_Witness ==
    /\ detected = 32
    /\ pc = "down"
    /\ result.cause = "newer"

\* the starting version was read from the store's marker
DetectedFromMarker == legacy_read.answer \notin Injected

C4_VersionTableBoundary ==
    /\ Len(writes) \in {Len(executed), Len(executed) - 1}
    /\ pc = "execute_batch" => Len(writes) = Len(executed)
    /\ \A i \in DOMAIN writes :
        /\ writes[i].version = executed[i]
        /\ writes[i].table = "local_settings" <=> executed[i] >= 24
        /\ writes[i].table = "settings" <=> executed[i] < 24

C4_Witness ==
    /\ pc = "execute_batch"
    /\ \E i, j \in DOMAIN writes :
        /\ writes[i] = [table |-> "settings", version |-> 23]
        /\ writes[j] = [table |-> "local_settings", version |-> 24]

\* C5 (as claimed): a read of local_settings.schema_version that fails with
\* anything but "no such table" makes check_and_upgrade return that failure:
\* the call is over, with no script issued and normalize_urls not entered.
C5_OtherReadFailureIsReturned ==
    (/\ schema_read \notin {"none", "Ok", "no such table"}
     /\ pc # "started"
     /\ (call = "check_and_upgrade" \/ result.of = "check_and_upgrade"))
        => /\ call = "none"
           /\ result.status = "Err"
           /\ result.cause = "schema_version"
           /\ attempted = <<>>

\* C6 (as claimed): the settings table's version row gives the starting
\* version when its value parses as an integer; a value that does not parse,
\* a missing row and a missing table give starting version 0, and upgrade is
\* entered with it.
C6_LegacyStartingVersion ==
    /\ legacy_read.answer = "Ok"
        => detected = IF parse_usize(legacy_read.value) # ParseFailed
                      THEN parse_usize(legacy_read.value)
                      ELSE 0
    /\ legacy_read.answer \in {"no such table", "QueryReturnedNoRows"} => detected = 0
    /\ legacy_read.answer # "none" => result.cause # "parse"

\* version detection of this process is over
DetectionDone ==
    /\ schema_read # "none"
    /\ pc \notin {"started", "old_check_and_upgrade"}

PassBody == {"pragma_update", "snapshot", "row", "delete_duplicate",
             "update_person_relay", "update_event_relay",
             "delete_person_relay", "delete_event_relay"}

Flags == { w.urls_are_normalized : w \in local_settings }

\* C8: once a call of normalize_urls has returned Ok, no step changes the
\* relay table, a dependent table, the flag (which is true) or the setting of
\* a held session, no step enters the pass after the guard, and a call whose
\* read of the flag succeeds returns Ok at the guard.
C8_NormalizeOnce ==
    [][passed # "no"
        => /\ relay' = relay
           /\ person_relay' = person_relay
           /\ event_relay' = event_relay
           /\ Flags = {TRUE}
           /\ Flags' = Flags
           /\ pc' \notin PassBody
           /\ (ndb # "none" /\ ndb' # "none") => ndb' = ndb
           /\ (pc = "normalize_urls" /\ faults' = faults)
               => result' = [of |-> call, status |-> "Ok", cause |-> "guard"]]_vars

C8_Witness ==
    /\ passed = "pass"
    /\ result.status = "Ok"
    /\ result.cause = "guard"

\* C9: once upgrade has returned Ok, a later check_and_upgrade detects version
\* 31, issues no script, writes no version, and the persisted version stays 31.
C9_SecondRunIsNoOp ==
    upgraded
        => /\ attempted = <<>>
           /\ executed = <<>>
           /\ writes = <<>>
           /\ PersistedVersion = 31
           /\ detected \in {-1, 31}
           /\ schema_read \in {"none", "Ok"} \cup Injected
           /\ (schema_read = "Ok" /\ pc # "started") => detected = 31
           /\ upgrade_ret \in {"none", "Ok"}

C9_Witness ==
    /\ upgraded
    /\ detected = 31
    /\ upgrade_ret = "Ok"
    /\ executed = <<>>

\* C10 (as claimed): when normalize_urls has returned Ok and the flag is set,
\* every key of the relay table equals its own canonical form.
C10_KeysCanonicalAfterPass ==
    (result.status = "Ok" /\ Flags = {TRUE}) => \A u \in relay : Canonical(u)

\* this call's pass has processed every snapshot value and returned Ok
PassReturnedOk ==
    /\ before.seen
    /\ result.status = "Ok"
    /\ result.cause = "pass"

\* the canonical forms of the values the snapshot held
CanonicalForms == { try_from_str(u) : u \in before.r } \ {ParseError}

\* the snapshot's values whose canonical form is c
Aliases(c) == { u \in before.r : try_from_str(u) = c }

\* C11 (as claimed): after a pass that returned Ok, for every canonical form c
\* of snapshot values the relay table holds the row c and none of the other
\* values that canonicalize to c, and every person_relay and event_relay row
\* that named one of those values names c.
C11_AliasesMergeIntoOne ==
    PassReturnedOk
        => \A c \in CanonicalForms :
            /\ c \in relay
            /\ Aliases(c) \cap relay \subseteq {c}
            /\ \A d \in before.p : d[2] \in Aliases(c) => <<d[1], c>> \in person_relay
            /\ \A d \in before.e : d[2] \in Aliases(c) => <<d[1], c>> \in event_relay

\* the snapshot's values that do not parse
Invalid == { u \in before.r : try_from_str(u) = ParseError }

RowIds(rows) == { d[1] : d \in rows }

\* C12: after a pass that returned Ok, no snapshot value that fails to parse
\* is a key of relay or named by a person_relay or event_relay row, and the
\* rows of the dependent tables that are gone are exactly those that named
\* such a value; the pass returned Ok although values failed to parse.
C12_InvalidRowsRemoved ==
    PassReturnedOk
        => /\ relay \cap Invalid = {}
           /\ \A d \in person_relay \cup event_relay : d[2] \notin Invalid
           /\ RowIds(person_relay) = RowIds({ d \in before.p : d[2] \notin Invalid })
           /\ RowIds(event_relay) = RowIds({ d \in before.e : d[2] \notin Invalid })

C12_Witness ==
    /\ PassReturnedOk
    /\ <<"!">> \in before.r
    /\ before.p = {<<1, <<"!">>>>}
    /\ person_relay = {}
    /\ before.e = {<<1, <<"b", "/">>>>}
    /\ event_relay = before.e

\* C13: when every value of the snapshot is in canonical form, the relay
\* table, person_relay and event_relay are at every later point of the call,
\* and after it, as the snapshot found them, and a pass that returns Ok has
\* set the flag.
C13_CanonicalStoreUntouched ==
    (before.seen /\ \A u \in before.r : Canonical(u))
        => /\ relay = before.r
           /\ person_relay = before.p
           /\ event_relay = before.e
           /\ PassReturnedOk => Flags = {TRUE}

C13_Witness ==
    /\ PassReturnedOk
    /\ before.r = {<<"a", "/">>, <<"b", "/">>}
    /\ relay = before.r
    /\ person_relay = {<<1, <<"a", "/">>>>}
    /\ event_relay = {<<1, <<"b", "/">>>>}
    /\ Flags = {TRUE}

\* C14 (as claimed): when every person_relay and event_relay row named a
\* relay row at the snapshot, then after a pass that returned Ok every
\* person_relay and event_relay row names a relay row.
C14_NoDanglingReference ==
    (PassReturnedOk /\ Integrity(before.r, before.p \cup before.e))
        => Integrity(relay, person_relay \cup event_relay)

\* what a call whose pass has taken its snapshot returns when the pass aborts
PassAborted ==
    /\ before.seen
    /\ result.status = "Err"

\* the flag turns true only in the step that follows the processing of the
\* last snapshot value, the one that returns Ok
FlagSetLast ==
    (Flags # {TRUE} /\ Flags' = {TRUE})
        => /\ pc = "row"
           /\ urlkey = Len(all_rows) + 1
           /\ result' = [of |-> call, status |-> "Ok", cause |-> "pass"]

\* a call that reads the flag as false goes on to the pass
PassRunsAgain ==
    (pc = "normalize_urls" /\ Flags = {FALSE} /\ faults' = faults)
        => pc' = "pragma_update"

\* C15: the flag turns true only in the step that follows the processing of
\* the last snapshot value and returns Ok; when a pass aborts with an error
\* after its snapshot the flag is false at the return; and a call that reads
\* the flag as false goes on to the pass instead of returning at the guard.
C15_FlagOnlyAfterWholePass ==
    /\ [](PassAborted => Flags = {FALSE})
    /\ [][FlagSetLast /\ PassRunsAgain]_vars

C15_Witness ==
    /\ linked.seen
    /\ Flags = {FALSE}
    /\ pc = "pragma_update"
    /\ relay # {}

\* the step is the UPDATE of relay for a non-canonical snapshot value, and
\* the store engine fails it for another reason than the uniqueness of url
UpdateRelayFails ==
    /\ pc = "row"
    /\ ~all_processed(urlkey, all_rows)
    /\ row_arm(all_rows[urlkey], try_from_str(all_rows[urlkey])) = "update"
    /\ faults' = faults + 1

\* C16 (as claimed): when the UPDATE of relay for a non-canonical value fails
\* for another reason than a uniqueness conflict, normalize_urls returns that
\* error at once: no further statement is executed (the dependent tables are
\* not updated for the value, no later value is processed) and the flag is
\* false.
C16_OtherUpdateFailureAborts ==
    [][UpdateRelayFails
        => /\ result' = [of |-> call, status |-> "Err", cause |-> "update_relay"]
           /\ pc' = "idle"
           /\ store' = store
           /\ Flags = {FALSE}]_vars

\* C17 (as claimed): a session that had foreign_keys on when normalize_urls
\* took it has it on again when normalize_urls has returned; hence, when no
\* call is running, the pool still holds a session with foreign_keys on (the
\* one init_database turned it on for, at least).
C17_ForeignKeysOnAgain ==
    pc = "idle" => foreign_keys["ON"] >= 1

\* C18 (as claimed): within check_and_upgrade, normalize_urls is entered only
\* after upgrade has returned Ok and with the persisted version at 31; when the
\* version could not be read, or upgrade did not return Ok, it is not entered.
C18_NormalizeOnlyWhenCurrent ==
    (call = "check_and_upgrade" /\ pc \in {"normalize_urls"} \cup PassBody)
        => /\ upgrade_ret = "Ok"
           /\ schema_read \in {"Ok", "no such table"}
           /\ PersistedVersion = UPGRADE_SQL_len

\* the step executes script k only at persisted version k-1
ScriptAtItsVersion ==
    Len(executed') = Len(executed) + 1
        => PersistedVersion = executed'[Len(executed')] - 1

\* the persisted version changes only by the write that follows the execution
\* of script k, from k-1 to k
VersionFollowsScript ==
    PersistedVersion' # PersistedVersion
        => /\ pc = "write_version"
           /\ executed # <<>>
           /\ PersistedVersion = executed[Len(executed)] - 1
           /\ PersistedVersion' = executed[Len(executed)]

\* C19 (as claimed): in every sequence of start-ups, with crashes and failing
\* statements, script k is executed only when the persisted version is k-1
\* and the persisted version changes only from k-1 to k, by the write that
\* follows the execution of script k; so the first script a start-up executes
\* is the one after the persisted version, which is executed a second time
\* only when its version was not persisted.
C19_ScriptsFollowPersistedVersion ==
    [][ScriptAtItsVersion /\ VersionFollowsScript]_vars

\* C20 (as claimed): when a pass was interrupted after its snapshot and a
\* later call of normalize_urls has run the pass again and returned Ok, every
\* key of relay is in canonical form and every person_relay and event_relay
\* row that named a relay row at the first snapshot names a relay row.
C20_InterruptedPassRepaired ==
    (linked.again /\ PassReturnedOk)
        => /\ \A u \in relay : Canonical(u)
           /\ \A d \in person_relay : d[1] \in linked.p => d[2] \in relay
           /\ \A d \in event_relay : d[1] \in linked.e => d[2] \in relay

====
